---- MODULE Spec2Model ----
(***************************************************************************)
(* Model of src/src/modules/mod_openssl.c (lighttpd2 mod_openssl): the     *)
(* per-connection TLS callbacks openssl_con_new, openssl_con_close,        *)
(* openssl_con_write and openssl_con_read.                                  *)
(*                                                                         *)
(* Sizes are scaled: the source's 1024 is the definition Kilo, so that     *)
(* blocksize = 16*Kilo and max_read = 16*blocksize keep the source's       *)
(* arithmetic.  One loop iteration of a callback is one step; while a      *)
(* callback runs (pc # "idle") nothing else can happen, as the server is   *)
(* single threaded.                                                        *)
(***************************************************************************)
EXTENDS Integers, Sequences, FiniteSets, TLC

(* ---------------------------------------------------------------------- *)
(* Bounds of the model                                                     *)
(* ---------------------------------------------------------------------- *)
Kilo == 1                 \* stands for the source's 1024
MaxExtraOut == 6          \* bytes the caller may enqueue beyond one 20k chunk
MaxErrQ == 2              \* error queue entries per failure handed to both callbacks
MaxErrQCall == 1          \* error queue entries per failed attempt of a callback
MaxBacklog == 1           \* bytes left in raw_in when a read call is made
ByteMod == 3              \* period of the plaintext pattern SSL_read produces
IdMod == 2                \* buffer allocation serials wrap at IdMod

Min(a, b) == IF a < b THEN a ELSE b

(* ---------------------------------------------------------------------- *)
(* Program constants                                                       *)
(* ---------------------------------------------------------------------- *)
blocksize == 16 * Kilo

SUCCESS == "SUCCESS"
WAIT_FOR_EVENT == "WAIT_FOR_EVENT"
CONNECTION_CLOSE == "CONNECTION_CLOSE"
FATAL_ERROR == "FATAL_ERROR"
NoStatus == "none"
Terminal == {CONNECTION_CLOSE, FATAL_ERROR}

\* result of SSL_get_error for a failed attempt
ErrClasses == {"WANT_READ", "WANT_WRITE", "SYSCALL", "ZERO_RETURN", "SSL"}
\* errno left by the transport
Errnos == {"EPIPE", "ECONNRESET", "EIO"}
\* reason codes the read path treats as noise
NoiseReasons == {"SSL_HANDSHAKE_FAILURE", "TLSV1_ALERT_UNKNOWN_CA",
                 "SSLV3_ALERT_CERTIFICATE_UNKNOWN", "SSLV3_ALERT_BAD_CERTIFICATE"}
\* reason codes of the entries the TLS library queues in this model
Reasons == {"SSL_HANDSHAKE_FAILURE", "SSLV3_ALERT_BAD_CERTIFICATE", "WRONG_VERSION_NUMBER"}
\* contents the TLS library can leave in its error queue after one attempt
ErrQueues(n) == UNION {[1..k -> Reasons] : k \in 0..n}

\* SSL_get_error: with entries in the error queue it reports SSL or SYSCALL;
\* with an empty queue, WANT_READ / WANT_WRITE for r < 0, ZERO_RETURN for
\* r = 0, and SYSCALL otherwise
Reportable(f) ==
  IF f.errq # <<>> THEN f.err \in {"SSL", "SYSCALL"}
  ELSE IF f.r < 0 THEN f.err \in {"WANT_READ", "WANT_WRITE", "SYSCALL"}
  ELSE f.err \in {"ZERO_RETURN", "SYSCALL"}

\* one failed TLS attempt: return value, SSL_get_error class, error queue, errno
Failures(n) ==
  {f \in [r : {-1, 0}, err : ErrClasses, errq : ErrQueues(n), errno : Errnos] : Reportable(f)}

(* ---------------------------------------------------------------------- *)
(* Chunk queues (lighttpd chunk.c, used through its interface)            *)
(* ---------------------------------------------------------------------- *)
chunk_length(c) == Len(c.data) - c.offset

RECURSIVE Flatten(_)
Flatten(cq) ==
  IF cq = <<>> THEN <<>>
  ELSE SubSeq(Head(cq).data, Head(cq).offset + 1, Len(Head(cq).data)) \o Flatten(Tail(cq))

cq_length(cq) == Len(Flatten(cq))

NoView == [off |-> -1, data |-> <<>>, len |-> -1]

\* view of at most length bytes of the first chunk, start bytes into it
li_chunkiter_read(cq, start, length) ==
  LET c == Head(cq)
      n == Min(length, chunk_length(c) - start)
  IN [off |-> c.offset + start,
      data |-> SubSeq(c.data, c.offset + start + 1, c.offset + start + n),
      len |-> n]

\* drop n bytes from the front of the queue
RECURSIVE li_chunkqueue_skip(_, _)
li_chunkqueue_skip(cq, n) ==
  IF n <= 0 \/ cq = <<>> THEN cq
  ELSE IF chunk_length(Head(cq)) > n
       THEN <<[Head(cq) EXCEPT !.offset = @ + n]>> \o Tail(cq)
       ELSE li_chunkqueue_skip(Tail(cq), n - chunk_length(Head(cq)))

(* ---------------------------------------------------------------------- *)
(* Diagnostics written with ERROR / VR_ERROR                               *)
(* ---------------------------------------------------------------------- *)
Diag(fn, msg) == <<fn, msg>>

RECURSIVE DiagAll(_, _)
DiagAll(fn, errq) ==
  IF errq = <<>> THEN <<>> ELSE <<Diag(fn, Head(errq))>> \o DiagAll(fn, Tail(errq))

\* the entries the read path logs in its default case: the noise reasons
\* hit "continue" before VR_ERROR
RECURSIVE DiagNonNoise(_, _)
DiagNonNoise(fn, errq) ==
  IF errq = <<>> THEN <<>>
  ELSE (IF Head(errq) \in NoiseReasons THEN <<>> ELSE <<Diag(fn, Head(errq))>>)
       \o DiagNonNoise(fn, Tail(errq))

FullDiag == Diag("li_network_read", "fd should be disabled as chunkqueue is already full")

(* ---------------------------------------------------------------------- *)
(* openssl_con_write: handling of SSL_write's result r <= 0                *)
(* ---------------------------------------------------------------------- *)
\* mutant: ECONNRESET is not recognised in the errno switch
write_outcome_noreset(r, ssl_r, errq, errno) ==
  CASE ssl_r \in {"WANT_READ", "WANT_WRITE"} ->
         [status |-> WAIT_FOR_EVENT, log |-> <<>>, errq |-> errq]
    [] ssl_r = "SYSCALL" ->
         IF errq # <<>>
         THEN [status |-> FATAL_ERROR, log |-> DiagAll("SSL_write", errq), errq |-> <<>>]
         ELSE IF r = -1
              THEN IF errno \in {"EPIPE"}
                   THEN [status |-> CONNECTION_CLOSE, log |-> <<>>, errq |-> errq]
                   ELSE [status |-> FATAL_ERROR,
                         log |-> <<Diag("SSL_write", errno)>>, errq |-> errq]
              ELSE [status |-> CONNECTION_CLOSE,
                    log |-> <<Diag("SSL_write", "Unexpected eof")>>, errq |-> errq]
    [] ssl_r = "ZERO_RETURN" ->
         [status |-> CONNECTION_CLOSE, log |-> <<>>, errq |-> errq]
    [] OTHER ->
         [status |-> FATAL_ERROR, log |-> DiagAll("SSL_write", errq), errq |-> <<>>]

write_outcome(r, ssl_r, errq, errno) ==
  CASE ssl_r \in {"WANT_READ", "WANT_WRITE"} ->
         [status |-> WAIT_FOR_EVENT, log |-> <<>>, errq |-> errq]
    [] ssl_r = "SYSCALL" ->
         IF errq # <<>>
         THEN \* perhaps we have error waiting in our error-queue
              [status |-> FATAL_ERROR, log |-> DiagAll("SSL_write", errq), errq |-> <<>>]
         ELSE IF r = -1
              THEN \* no, but we have errno
                   IF errno \in {"EPIPE", "ECONNRESET"}
                   THEN [status |-> CONNECTION_CLOSE, log |-> <<>>, errq |-> errq]
                   ELSE [status |-> FATAL_ERROR,
                         log |-> <<Diag("SSL_write", errno)>>, errq |-> errq]
              ELSE \* neither error-queue nor errno
                   [status |-> CONNECTION_CLOSE,
                    log |-> <<Diag("SSL_write", "Unexpected eof")>>, errq |-> errq]
    [] ssl_r = "ZERO_RETURN" ->
         [status |-> CONNECTION_CLOSE, log |-> <<>>, errq |-> errq]
    [] OTHER ->
         [status |-> FATAL_ERROR, log |-> DiagAll("SSL_write", errq), errq |-> <<>>]

(* ---------------------------------------------------------------------- *)
(* openssl_con_read: handling of SSL_read's result r <= 0                  *)
(* ---------------------------------------------------------------------- *)
\* mutant: the SYSCALL case looks at errno without emptying the error queue
read_outcome_syscall_nodrain(r, err, errq, oerrno) ==
  IF r = 0
  THEN [status |-> CONNECTION_CLOSE, log |-> <<>>, errq |-> errq]
  ELSE CASE err \in {"WANT_READ", "WANT_WRITE"} ->
              [status |-> WAIT_FOR_EVENT, log |-> <<>>, errq |-> errq]
         [] err = "SYSCALL" ->
              IF oerrno \in {"EPIPE", "ECONNRESET"}
              THEN [status |-> CONNECTION_CLOSE, log |-> <<>>, errq |-> errq]
              ELSE [status |-> FATAL_ERROR,
                    log |-> <<Diag("SSL_read", oerrno)>>, errq |-> errq]
         [] err = "ZERO_RETURN" ->
              [status |-> CONNECTION_CLOSE, log |-> <<>>, errq |-> errq]
         [] OTHER ->
              LET was_fatal == \E i \in 1..Len(errq) : errq[i] \notin NoiseReasons
              IN [status |-> IF was_fatal THEN FATAL_ERROR ELSE CONNECTION_CLOSE,
                  log |-> DiagNonNoise("SSL_read", errq), errq |-> <<>>]

\* mutant: a result of 0 is treated as a failed read
read_outcome_zero_fatal(r, err, errq, oerrno) ==
  IF r = 0
  THEN [status |-> FATAL_ERROR, log |-> <<>>, errq |-> errq]
  ELSE CASE err \in {"WANT_READ", "WANT_WRITE"} ->
              [status |-> WAIT_FOR_EVENT, log |-> <<>>, errq |-> errq]
         [] err = "SYSCALL" ->
              IF oerrno \in {"EPIPE", "ECONNRESET"}
              THEN [status |-> CONNECTION_CLOSE,
                    log |-> DiagAll("SSL_read", errq), errq |-> <<>>]
              ELSE [status |-> FATAL_ERROR,
                    log |-> DiagAll("SSL_read", errq) \o <<Diag("SSL_read", oerrno)>>,
                    errq |-> <<>>]
         [] err = "ZERO_RETURN" ->
              [status |-> CONNECTION_CLOSE, log |-> <<>>, errq |-> errq]
         [] OTHER ->
              LET was_fatal == \E i \in 1..Len(errq) : errq[i] \notin NoiseReasons
              IN [status |-> IF was_fatal THEN FATAL_ERROR ELSE CONNECTION_CLOSE,
                  log |-> DiagNonNoise("SSL_read", errq), errq |-> <<>>]

read_outcome(r, err, errq, oerrno) ==
  IF r = 0
  THEN [status |-> CONNECTION_CLOSE, log |-> <<>>, errq |-> errq]
  ELSE CASE err \in {"WANT_READ", "WANT_WRITE"} ->
              [status |-> WAIT_FOR_EVENT, log |-> <<>>, errq |-> errq]
         [] err = "SYSCALL" ->
              IF oerrno \in {"EPIPE", "ECONNRESET"}
              THEN [status |-> CONNECTION_CLOSE,
                    log |-> DiagAll("SSL_read", errq), errq |-> <<>>]
              ELSE [status |-> FATAL_ERROR,
                    log |-> DiagAll("SSL_read", errq) \o <<Diag("SSL_read", oerrno)>>,
                    errq |-> <<>>]
         [] err = "ZERO_RETURN" ->
              [status |-> CONNECTION_CLOSE, log |-> <<>>, errq |-> errq]
         [] OTHER ->
              LET was_fatal == \E i \in 1..Len(errq) : errq[i] \notin NoiseReasons
              IN [status |-> IF was_fatal THEN FATAL_ERROR ELSE CONNECTION_CLOSE,
                  log |-> DiagNonNoise("SSL_read", errq), errq |-> <<>>]


(* ---------------------------------------------------------------------- *)
(* State                                                                   *)
(* ---------------------------------------------------------------------- *)
VARIABLES
  srv_sock_data,      \* con->srv_sock_data: "NULL" or "conctx"
  is_ssl,             \* con->is_ssl
  ssl,                \* conctx->ssl: "NULL" or "handle"
  reuse_read_buffer,  \* conctx->reuse_read_buffer
  ssl_obj,            \* the SSL object: its heap state, SSL_shutdown and SSL_free calls on it
  ctx_obj,            \* the openssl_connection_ctx allocation: "none", "live", "freed"
  new_ret,            \* what openssl_con_new returned last
  close_calls,        \* calls of openssl_con_close so far: 0, 1, or 2 for more than one
  pc,                 \* "idle", or the callback whose loop is running: "write", "read"
  err_queue,          \* the OpenSSL error queue
  log,                \* diagnostics written by the running / last callback
  raw_out,            \* con->raw_out
  write_max,          \* openssl_con_write: parameter / local
  w_ret,              \* what openssl_con_write returned last
  enq_hist,           \* every byte the caller ever put into raw_out
  accepted,           \* every byte SSL_write reported as written
  w_att,              \* the last SSL_write attempt of the running / last write call
  w_paused,           \* the view of an attempt that paused and waits for its retry
  w_attempts,         \* SSL_write calls made by the running / last write call
  w_results,          \* the values SSL_write returned during that call, forgotten when
                      \* the caller changes raw_out
  w_err,              \* what SSL_get_error reported for the failed attempt of that call
  raw_in,             \* con->raw_in
  limit,              \* con->raw_in->limit
  max_read,           \* openssl_con_read: local
  len,                \* openssl_con_read: local
  buf,                \* openssl_con_read: local
  r_ret,              \* what openssl_con_read returned last
  r_entry,            \* raw_in, reuse_read_buffer and limit when the read call was entered,
                      \* and whether the caller took data out of raw_in since
  r_produced,         \* the bytes SSL_read produced during the running / last read call
  r_results,          \* the values SSL_read returned during the running / last read call
  r_err,              \* what SSL_get_error reported for the failed attempt of that call
  r_allocs,           \* g_byte_array_new calls of the running / last read call
  r_frees,            \* g_byte_array_free calls of the running / last read call
  next_id,            \* serial of the next GByteArray
  cls                 \* classification of one TLS failure by both callbacks

ctxVars == <<srv_sock_data, is_ssl, ssl, reuse_read_buffer, ssl_obj, ctx_obj, new_ret, close_calls>>
outVars == <<raw_out, write_max, w_ret, enq_hist, accepted, w_att, w_paused, w_attempts,
             w_results, w_err>>
inVars == <<raw_in, limit, max_read, len, buf, r_ret, r_entry, r_produced, r_results, r_err,
            r_allocs, r_frees, next_id>>
vars == <<ctxVars, pc, err_queue, log, outVars, inVars, cls>>

NoBuf == [id |-> 0, data |-> <<>>]
NoLimit == [present |-> FALSE, limit |-> 0, current |-> 0]
NoAtt == [view |-> NoView, r |-> 0, status |-> NoStatus, before |-> <<>>, retry_of |-> NoView]
NoSsl == [state |-> "none", shutdowns |-> 0, frees |-> 0]
NoCls == [phase |-> "off", r |-> 0, err |-> "none", errq |-> <<>>, errno |-> "EIO",
          w |-> NoStatus, rd |-> NoStatus, w_log |-> <<>>, rd_log |-> <<>>,
          w_errq |-> <<>>, rd_errq |-> <<>>]

Init ==
  /\ srv_sock_data = "NULL" /\ is_ssl = FALSE /\ ssl = "NULL"
  /\ reuse_read_buffer = NoBuf
  /\ ssl_obj = NoSsl /\ ctx_obj = "none" /\ new_ret = "none" /\ close_calls = 0
  /\ pc = "idle" /\ err_queue = <<>> /\ log = <<>>
  /\ raw_out = <<>> /\ write_max = 0 /\ w_ret = NoStatus
  /\ enq_hist = <<>> /\ accepted = <<>> /\ w_att = NoAtt /\ w_paused = NoView
  /\ w_attempts = 0 /\ w_results = <<>> /\ w_err = "none"
  /\ raw_in = <<>> /\ limit = NoLimit /\ max_read = 0 /\ len = 0 /\ buf = NoBuf
  /\ r_ret = NoStatus
  /\ r_entry = [in |-> <<>>, buf |-> NoBuf, limit |-> NoLimit, consumed |-> FALSE]
  /\ r_produced = <<>> /\ r_results = <<>> /\ r_err = "none"
  /\ r_allocs = 0 /\ r_frees = 0 /\ next_id = 1
  /\ cls = NoCls

(* ---------------------------------------------------------------------- *)
(* openssl_con_new                                                         *)
(* ---------------------------------------------------------------------- *)
\* mutant: the failure path does not SSL_free what SSL_new returned
openssl_con_new_leak(ssl_new_ok, set_fd_ok) ==
  /\ pc = "idle"
  /\ srv_sock_data = "NULL"
  /\ IF ssl_new_ok /\ set_fd_ok
     THEN /\ ssl_obj' = [state |-> "live", shutdowns |-> 0, frees |-> 0]
          /\ ctx_obj' = "live"
          /\ ssl' = "handle"
          /\ srv_sock_data' = "conctx"
          /\ is_ssl' = TRUE
          /\ new_ret' = "TRUE"
          /\ log' = <<>>
     ELSE /\ ssl_obj' = IF ssl_new_ok
                        THEN [state |-> "live", shutdowns |-> 0, frees |-> 0]
                        ELSE NoSsl
          /\ ctx_obj' = "freed"
          /\ log' = <<Diag(IF ssl_new_ok THEN "SSL_set_fd" ELSE "SSL_new", "error")>>
          /\ new_ret' = "FALSE"
          /\ UNCHANGED <<ssl, srv_sock_data, is_ssl>>
  /\ close_calls' = 0
  /\ UNCHANGED <<reuse_read_buffer, pc, err_queue, outVars, inVars, cls>>

\* ssl_new_ok: SSL_new returned an object; set_fd_ok: SSL_set_fd returned 1
openssl_con_new(ssl_new_ok, set_fd_ok) ==
  /\ pc = "idle"
  /\ srv_sock_data = "NULL"
  /\ IF ssl_new_ok /\ set_fd_ok
     THEN /\ ssl_obj' = [state |-> "live", shutdowns |-> 0, frees |-> 0]
          /\ ctx_obj' = "live"
          /\ ssl' = "handle"
          /\ srv_sock_data' = "conctx"
          /\ is_ssl' = TRUE
          /\ new_ret' = "TRUE"
          /\ log' = <<>>
     ELSE \* fail: SSL_free what SSL_new returned, free the context
          /\ ssl_obj' = IF ssl_new_ok
                        THEN [state |-> "freed", shutdowns |-> 0, frees |-> 1]
                        ELSE NoSsl
          /\ ctx_obj' = "freed"
          /\ log' = <<Diag(IF ssl_new_ok THEN "SSL_set_fd" ELSE "SSL_new", "error")>>
          /\ new_ret' = "FALSE"
          /\ UNCHANGED <<ssl, srv_sock_data, is_ssl>>
  /\ close_calls' = 0
  /\ UNCHANGED <<reuse_read_buffer, pc, err_queue, outVars, inVars, cls>>

(* ---------------------------------------------------------------------- *)
(* openssl_con_close                                                       *)
(* ---------------------------------------------------------------------- *)
\* mutant: conctx->ssl is not reset after SSL_free
openssl_con_close_noreset ==
  /\ pc = "idle"
  /\ srv_sock_data = "conctx"
  /\ close_calls' = Min(close_calls + 1, 2)
  /\ IF ssl # "NULL"
     THEN /\ ssl_obj' = [state |-> "freed", shutdowns |-> ssl_obj.shutdowns + 1,
                         frees |-> ssl_obj.frees + 1]
          /\ ssl' = ssl
     ELSE UNCHANGED <<ssl_obj, ssl>>
  /\ UNCHANGED <<srv_sock_data, is_ssl, reuse_read_buffer, ctx_obj, new_ret,
                 pc, err_queue, log, outVars, inVars, cls>>

openssl_con_close ==
  /\ pc = "idle"
  /\ srv_sock_data = "conctx"
  /\ close_calls' = Min(close_calls + 1, 2)
  /\ IF ssl # "NULL"
     THEN \* SSL_shutdown; SSL_free; conctx->ssl = FALSE
          /\ ssl_obj' = [state |-> "freed", shutdowns |-> ssl_obj.shutdowns + 1,
                         frees |-> ssl_obj.frees + 1]
          /\ ssl' = "NULL"
     ELSE UNCHANGED <<ssl_obj, ssl>>
  /\ UNCHANGED <<srv_sock_data, is_ssl, reuse_read_buffer, ctx_obj, new_ret,
                 pc, err_queue, log, outVars, inVars, cls>>

\* the server calls read_cb / write_cb on a connection whose TLS session is
\* set up, not closed, and has not reported a terminal status
Usable ==
  /\ pc = "idle"
  /\ srv_sock_data = "conctx" /\ ssl = "handle" /\ close_calls = 0
  /\ w_ret \notin Terminal /\ r_ret \notin Terminal


(* ---------------------------------------------------------------------- *)
(* The caller fills con->raw_out                                           *)
(* ---------------------------------------------------------------------- *)
OutChunkLens == {3, 20 * Kilo}
MaxOutBytes == 20 * Kilo + MaxExtraOut
WriteMaxVals == {-1, 0, 5, 1024 * Kilo}

\* the bytes of the outbound stream are numbered, so that every byte is distinct
Enqueue(n) ==
  /\ Usable
  /\ Len(enq_hist) + n <= MaxOutBytes
  /\ LET data == [i \in 1..n |-> Len(enq_hist) + i]
     IN /\ raw_out' = Append(raw_out, [data |-> data, offset |-> 0])
        /\ enq_hist' = enq_hist \o data
  /\ w_paused' = NoView
  /\ w_att' = NoAtt
  /\ w_results' = <<>> /\ w_err' = "none"
  /\ UNCHANGED <<ctxVars, pc, err_queue, log, write_max, w_ret, accepted, w_attempts,
                 inVars, cls>>

(* ---------------------------------------------------------------------- *)
(* openssl_con_write                                                       *)
(* ---------------------------------------------------------------------- *)
\* entry of the callback with its parameter write_max
openssl_con_write_enter(wm) ==
  /\ Usable
  /\ write_max' = wm
  /\ w_ret' = NoStatus
  /\ w_attempts' = 0
  /\ log' = <<>>
  /\ w_att' = NoAtt
  /\ w_results' = <<>>
  /\ w_err' = "none"
  /\ pc' = "write"
  /\ UNCHANGED <<ctxVars, err_queue, raw_out, enq_hist, accepted, w_paused, inVars, cls>>

\* mutant: li_chunkqueue_skip is never called
write_consume_never(cq, block_len, r) == cq

\* mutant: the block is skipped whether or not SSL_write took it
write_consume_always(cq, block_len, r) ==
  IF r <= 0 THEN li_chunkqueue_skip(cq, block_len) ELSE li_chunkqueue_skip(cq, r)

\* mutant: the whole block is skipped after a short write
write_consume_block(cq, block_len, r) ==
  IF r <= 0 THEN cq ELSE li_chunkqueue_skip(cq, block_len)

\* raw_out after SSL_write returned r for a block of block_len bytes: every
\* branch for r <= 0 returns before li_chunkqueue_skip(cq, r)
write_consume(cq, block_len, r) ==
  IF r <= 0 THEN cq ELSE li_chunkqueue_skip(cq, r)

\* mutant: the loop goes on after a short write and stops after a full one
write_continue_short(r, block_len, wm) == r < block_len /\ wm > 0

\* mutant: the loop goes on after a short write
write_continue_any(r, block_len, wm) == wm > 0

\* the loop condition
write_continue(r, block_len, wm) == r = block_len /\ wm > 0

\* the local write_max ends with the call
WriteReturn(status) ==
  /\ w_ret' = status
  /\ write_max' = 0
  /\ pc' = "idle"

\* one iteration of the do-while loop
openssl_con_write_iter ==
  /\ pc = "write"
  /\ IF cq_length(raw_out) = 0
     THEN /\ WriteReturn(SUCCESS)
          /\ UNCHANGED <<err_queue, log, raw_out, accepted, w_att, w_paused, w_attempts,
                         w_results, w_err>>
     ELSE \E h \in {"GO_ON", "ERROR"} :
            IF h = "ERROR"
            THEN /\ WriteReturn(FATAL_ERROR)
                 /\ UNCHANGED <<err_queue, log, raw_out, accepted, w_att, w_paused,
                                w_attempts, w_results, w_err>>
            ELSE LET v == li_chunkiter_read(raw_out, 0, blocksize)
                 IN /\ w_attempts' = w_attempts + 1
                    /\ \/ \E r \in 1..v.len :
                            \* SSL_write took the first r bytes of the block
                            /\ err_queue' = <<>>
                            /\ accepted' = accepted \o SubSeq(v.data, 1, r)
                            /\ raw_out' = write_consume(raw_out, v.len, r)
                            /\ w_att' = [view |-> v, r |-> r, status |-> SUCCESS,
                                         before |-> raw_out, retry_of |-> w_paused]
                            /\ w_paused' = NoView
                            /\ w_results' = Append(w_results, r)
                            /\ IF write_continue(r, v.len, write_max - r)
                               THEN /\ write_max' = write_max - r
                                    /\ UNCHANGED <<pc, w_ret>>
                               ELSE WriteReturn(SUCCESS)
                            /\ UNCHANGED <<log, w_err>>
                       \/ \E f \in Failures(MaxErrQCall) :
                            LET o == write_outcome(f.r, f.err, f.errq, f.errno)
                            IN /\ err_queue' = o.errq
                               /\ log' = log \o o.log
                               /\ raw_out' = write_consume(raw_out, v.len, f.r)
                               /\ w_att' = [view |-> v, r |-> f.r, status |-> o.status,
                                            before |-> raw_out, retry_of |-> w_paused]
                               /\ w_paused' = IF o.status = WAIT_FOR_EVENT THEN v ELSE NoView
                               /\ w_results' = Append(w_results, f.r)
                               /\ w_err' = f.err
                               /\ WriteReturn(o.status)
                               /\ UNCHANGED accepted
  /\ UNCHANGED <<ctxVars, enq_hist, inVars, cls>>


(* ---------------------------------------------------------------------- *)
(* The caller empties con->raw_in and configures its limit                 *)
(* ---------------------------------------------------------------------- *)
\* limits attached to raw_in: none, unlimited, 24k with nothing / everything /
\* more than everything used by the queues sharing it, and one above 256k
LimitConfigs ==
  {[present |-> TRUE, limit |-> 0, current |-> 0],
   [present |-> TRUE, limit |-> 24 * Kilo, current |-> 0],
   [present |-> TRUE, limit |-> 24 * Kilo, current |-> 24 * Kilo],
   [present |-> TRUE, limit |-> 24 * Kilo, current |-> 30 * Kilo],
   [present |-> TRUE, limit |-> 300 * Kilo, current |-> 0]}
GarbageVals == {7, 9}     \* what a fresh, uninitialised GByteArray may hold

RECURSIVE FlattenIn(_)
FlattenIn(cq) == IF cq = <<>> THEN <<>> ELSE Head(cq).data \o FlattenIn(Tail(cq))

\* the limit accounts the memory of the chunks of the queues that share it
cqlimit_update(lim, delta) ==
  IF lim.present THEN [lim EXCEPT !.current = @ + delta] ELSE lim

li_chunkqueue_append_bytearr(cq, b) == Append(cq, b)

SetLimit ==
  /\ Usable
  /\ limit = NoLimit /\ r_ret = NoStatus
  /\ limit' \in LimitConfigs
  /\ UNCHANGED <<ctxVars, pc, err_queue, log, outVars, raw_in, max_read, len, buf, r_ret,
                 r_entry, r_produced, r_results, r_err, r_allocs, r_frees, next_id, cls>>

\* the request handler takes everything that was read
ConsumeIn ==
  /\ Usable
  /\ raw_in # <<>>
  /\ raw_in' = <<>>
  /\ limit' = cqlimit_update(limit, 0 - Len(FlattenIn(raw_in)))
  /\ r_entry' = [r_entry EXCEPT !.consumed = TRUE]
  /\ UNCHANGED <<ctxVars, pc, err_queue, log, outVars, max_read, len, buf, r_ret,
                 r_produced, r_results, r_err, r_allocs, r_frees, next_id, cls>>

(* ---------------------------------------------------------------------- *)
(* openssl_con_read                                                        *)
(* ---------------------------------------------------------------------- *)
\* mutant: the chunkqueue counts as full only when the allowance is negative
read_quota_negative(lim) ==
  IF lim.present /\ lim.limit > 0 /\ 16 * blocksize > lim.limit - lim.current
  THEN IF lim.limit - lim.current < 0
       THEN [max_read |-> 0, log |-> <<FullDiag>>]
       ELSE [max_read |-> lim.limit - lim.current, log |-> <<>>]
  ELSE [max_read |-> 16 * blocksize, log |-> <<>>]

\* max_read and the diagnostic of the function's entry
read_quota(lim) ==
  IF lim.present /\ lim.limit > 0 /\ 16 * blocksize > lim.limit - lim.current
  THEN IF lim.limit - lim.current <= 0
       THEN [max_read |-> 0, log |-> <<FullDiag>>]
       ELSE [max_read |-> lim.limit - lim.current, log |-> <<>>]
  ELSE [max_read |-> 16 * blocksize, log |-> <<>>]

openssl_con_read_enter ==
  /\ Usable
  /\ Len(FlattenIn(raw_in)) <= MaxBacklog
  /\ max_read' = read_quota(limit).max_read
  /\ log' = read_quota(limit).log
  /\ len' = 0
  /\ buf' = reuse_read_buffer
  /\ reuse_read_buffer' = NoBuf
  /\ r_ret' = NoStatus
  /\ r_entry' = [in |-> raw_in, buf |-> reuse_read_buffer, limit |-> limit,
                 consumed |-> FALSE]
  /\ r_produced' = <<>>
  /\ r_results' = <<>>
  /\ r_err' = "none"
  /\ r_allocs' = 0
  /\ r_frees' = 0
  /\ pc' = "read"
  /\ UNCHANGED <<srv_sock_data, is_ssl, ssl, ssl_obj, ctx_obj, new_ret, close_calls,
                 err_queue, outVars, raw_in, limit, next_id, cls>>

\* mutant: a new GByteArray for every attempt
read_alloc_buf_always(b, id, g) == [id |-> id, data |-> [i \in 1..blocksize |-> g]]

\* if (!buf) { buf = g_byte_array_new(); g_byte_array_set_size(buf, blocksize); }
read_alloc_buf(b, id, g) ==
  IF b = NoBuf THEN [id |-> id, data |-> [i \in 1..blocksize |-> g]] ELSE b

g_byte_array_set_size(b, n) == [b EXCEPT !.data = SubSeq(@, 1, n)]

\* mutant: the buffer is appended without being cut to the bytes read
read_chunk_uncut(b, r) == b

\* the buffer as it is appended to raw_in after SSL_read returned r > 0
read_chunk(b, r) == g_byte_array_set_size(b, r)

\* mutant: one more block when the quota is just reached
read_continue_le(r, l, mr) == r = blocksize /\ l <= mr

\* the loop condition
read_continue(r, l, mr) == r = blocksize /\ l < mr

\* mutant: the buffer is kept for the next call after every failed attempt
read_stash_always(r, err, b) == b

\* conctx->reuse_read_buffer after SSL_read returned r <= 0: the buffer is
\* stashed only on want-read / want-write of a negative result
read_stash(r, err, b) ==
  IF r < 0 /\ err \in {"WANT_READ", "WANT_WRITE"} THEN b ELSE NoBuf

\* mutant: the buffer is not freed when SSL_read returns 0
read_frees_negative(r, err) ==
  IF r < 0 /\ err \notin {"WANT_READ", "WANT_WRITE"} THEN 1 ELSE 0

\* g_byte_array_free(buf) calls after SSL_read returned r <= 0: one, unless
\* the buffer is stashed
read_frees(r, err) ==
  IF r < 0 /\ err \in {"WANT_READ", "WANT_WRITE"} THEN 0 ELSE 1

ReadReturn(status) ==
  /\ r_ret' = status
  /\ pc' = "idle"

\* one iteration of the do-while loop
openssl_con_read_iter ==
  /\ pc = "read"
  /\ \E g \in (IF buf = NoBuf THEN GarbageVals ELSE {0}) :
       LET b == read_alloc_buf(buf, next_id, g)
       IN /\ next_id' = IF b # buf THEN (next_id % IdMod) + 1 ELSE next_id
          /\ r_allocs' = IF b # buf THEN r_allocs + 1 ELSE r_allocs
          /\ \/ \E r \in 1..Len(b.data) :
                  \* SSL_read stored r bytes of plaintext in the buffer
                  LET bytes == [i \in 1..r |-> (Len(r_produced) + i) % ByteMod]
                      filled == [b EXCEPT !.data = bytes \o SubSeq(@, r + 1, Len(@))]
                      chunk == read_chunk(filled, r)
                  IN /\ err_queue' = <<>>
                     /\ raw_in' = li_chunkqueue_append_bytearr(raw_in, chunk)
                     /\ limit' = cqlimit_update(limit, Len(chunk.data))
                     /\ len' = len + r
                     /\ r_produced' = r_produced \o bytes
                     /\ r_results' = Append(r_results, r)
                     /\ IF read_continue(r, len + r, max_read)
                        THEN UNCHANGED <<pc, r_ret>>
                        ELSE ReadReturn(SUCCESS)
                     /\ UNCHANGED <<reuse_read_buffer, log, r_err, r_frees>>
             \/ \E f \in Failures(MaxErrQCall) :
                  LET o == read_outcome(f.r, f.err, f.errq, f.errno)
                  IN /\ err_queue' = o.errq
                     /\ log' = log \o o.log
                     /\ reuse_read_buffer' = read_stash(f.r, f.err, b)
                     /\ r_frees' = r_frees + read_frees(f.r, f.err)
                     /\ r_results' = Append(r_results, f.r)
                     /\ r_err' = f.err
                     /\ ReadReturn(o.status)
                     /\ UNCHANGED <<raw_in, limit, len, r_produced>>
  /\ buf' = NoBuf
  /\ UNCHANGED <<srv_sock_data, is_ssl, ssl, ssl_obj, ctx_obj, new_ret, close_calls,
                 outVars, max_read, r_entry, cls>>

(* ---------------------------------------------------------------------- *)
(* The two callbacks' handling of one and the same TLS failure             *)
(* ---------------------------------------------------------------------- *)
InitClassify ==
  /\ srv_sock_data = "conctx" /\ is_ssl = TRUE /\ ssl = "handle"
  /\ reuse_read_buffer = NoBuf
  /\ ssl_obj = [state |-> "live", shutdowns |-> 0, frees |-> 0]
  /\ ctx_obj = "live" /\ new_ret = "TRUE" /\ close_calls = 0
  /\ pc = "classify" /\ err_queue = <<>> /\ log = <<>>
  /\ raw_out = <<>> /\ write_max = 0 /\ w_ret = NoStatus
  /\ enq_hist = <<>> /\ accepted = <<>> /\ w_att = NoAtt /\ w_paused = NoView
  /\ w_attempts = 0 /\ w_results = <<>> /\ w_err = "none"
  /\ raw_in = <<>> /\ limit = NoLimit /\ max_read = 0 /\ len = 0 /\ buf = NoBuf
  /\ r_ret = NoStatus
  /\ r_entry = [in |-> <<>>, buf |-> NoBuf, limit |-> NoLimit, consumed |-> FALSE]
  /\ r_produced = <<>> /\ r_results = <<>> /\ r_err = "none"
  /\ r_allocs = 0 /\ r_frees = 0 /\ next_id = 1
  /\ \E f \in Failures(MaxErrQ) :
       cls = [phase |-> "input", r |-> f.r, err |-> f.err, errq |-> f.errq,
              errno |-> f.errno, w |-> NoStatus, rd |-> NoStatus,
              w_log |-> <<>>, rd_log |-> <<>>, w_errq |-> <<>>, rd_errq |-> <<>>]

Classify ==
  /\ cls.phase = "input"
  /\ LET w == write_outcome(cls.r, cls.err, cls.errq, cls.errno)
         rd == read_outcome(cls.r, cls.err, cls.errq, cls.errno)
     IN cls' = [cls EXCEPT !.phase = "done",
                           !.w = w.status, !.w_log = w.log, !.w_errq = w.errq,
                           !.rd = rd.status, !.rd_log = rd.log, !.rd_errq = rd.errq]
  /\ UNCHANGED <<ctxVars, pc, err_queue, log, outVars, inVars>>

(* ---------------------------------------------------------------------- *)
(* Specifications                                                          *)
(* ---------------------------------------------------------------------- *)
ConNew == \E a \in BOOLEAN, b \in BOOLEAN : openssl_con_new(a, b)
ConClose == openssl_con_close
CallerEnqueue == \E n \in OutChunkLens : Enqueue(n)
WriteEnter == \E wm \in WriteMaxVals : openssl_con_write_enter(wm)
WriteIter == openssl_con_write_iter
ReadEnter == openssl_con_read_enter
ReadIter == openssl_con_read_iter

\* both callbacks on one connection with little traffic: the caller sends
\* one chunk of 3 bytes, and SSL_read has no more than one byte at a time
DuplexEnqueue == enq_hist = <<>> /\ Enqueue(3)
DuplexWriteIter == openssl_con_write_iter
DuplexReadIter ==
  /\ openssl_con_read_iter
  /\ r_results'[Len(r_results')] <= 1

NextWrite == ConNew \/ ConClose \/ CallerEnqueue \/ WriteEnter \/ WriteIter
NextRead == ConNew \/ ConClose \/ SetLimit \/ ConsumeIn \/ ReadEnter \/ ReadIter
NextClassify == Classify
\* the caller calls write_cb again and again with a positive write_max, and
\* SSL_write pauses or takes bytes (never more than were ever enqueued), but
\* reports no terminal failure
LiveWriteEnter == \E wm \in {w \in WriteMaxVals : w > 0} : openssl_con_write_enter(wm)
LiveWriteIter ==
  /\ openssl_con_write_iter
  /\ w_ret' \notin Terminal
  /\ Len(accepted') <= MaxOutBytes
\* an iteration in which SSL_write does not pause
LiveWriteAccept == LiveWriteIter /\ w_ret' # WAIT_FOR_EVENT
NextWriteLive == ConNew \/ CallerEnqueue \/ LiveWriteEnter \/ LiveWriteIter

\* a connection that only sends or only receives
ReadUnused == pc # "read" /\ r_ret = NoStatus /\ limit = NoLimit
WriteUnused == pc # "write" /\ w_ret = NoStatus /\ enq_hist = <<>>
NextSimplex == (ReadUnused /\ NextWrite) \/ (WriteUnused /\ NextRead)

NextDuplex ==
  \/ ConNew \/ ConClose
  \/ DuplexEnqueue \/ WriteEnter \/ DuplexWriteIter
  \/ ConsumeIn \/ ReadEnter \/ DuplexReadIter
Next == NextWrite \/ NextRead

\* a connection served by write_cb
SpecWrite == Init /\ [][NextWrite]_vars
\* a connection served by read_cb
SpecRead == Init /\ [][NextRead]_vars
\* one TLS failure handed to both callbacks
SpecClassify == InitClassify /\ [][NextClassify]_vars
\* a connection whose write_cb is called until everything is written, over a
\* TLS layer that does not pause forever
SpecWriteLive ==
  /\ Init /\ [][NextWriteLive]_vars
  /\ WF_vars(LiveWriteEnter) /\ WF_vars(LiveWriteIter) /\ SF_vars(LiveWriteAccept)
\* a connection served by write_cb alone or by read_cb alone
SpecSimplex == Init /\ [][NextSimplex]_vars
\* a connection served by read_cb and write_cb
SpecDuplex == Init /\ [][NextDuplex]_vars
Spec == Init /\ [][Next]_vars


(* ---------------------------------------------------------------------- *)
(* Properties of openssl_con_write                                         *)
(* ---------------------------------------------------------------------- *)
\* C1: an SSL_write attempt that pauses (WAIT_FOR_EVENT) leaves raw_out as it
\* was, and when the caller did not touch raw_out since, the next SSL_write
\* attempt gets the same view: same offset, same bytes, same length.
C1_WriteRetrySameView ==
  w_att # NoAtt =>
    /\ (w_att.status = WAIT_FOR_EVENT => raw_out = w_att.before)
    /\ (w_att.retry_of # NoView => w_att.view = w_att.retry_of)

\* a retry in the middle of a chunk, which pauses again
C1_Witness ==
  /\ w_att.retry_of # NoView
  /\ w_att.view.off > 0
  /\ w_att.view.len = 4 * Kilo
  /\ w_att.status = WAIT_FOR_EVENT

\* C2: the bytes SSL_write accepted so far, followed by what is left in
\* raw_out, are exactly the bytes the caller enqueued, in order; an attempt
\* that pauses or fails takes nothing out of raw_out.
C2_ConsumedIsAccepted ==
  /\ accepted \o Flatten(raw_out) = enq_hist
  /\ (w_att # NoAtt /\ w_att.r <= 0) => raw_out = w_att.before

\* a short write in the second block of a chunk, then a failed attempt
C2_Witness ==
  /\ Len(accepted) > blocksize
  /\ Len(accepted) < 20 * Kilo
  /\ Len(raw_out) = 2
  /\ w_att.r <= 0 /\ w_att.status = FATAL_ERROR

(* ---------------------------------------------------------------------- *)
(* Properties of openssl_con_read                                          *)
(* ---------------------------------------------------------------------- *)
\* the chunks the running / last read call appended to raw_in
Appended == SubSeq(raw_in, Len(r_entry.in) + 1, Len(raw_in))
AppendedBytes == Len(FlattenIn(raw_in)) - Len(FlattenIn(r_entry.in))

\* C3: a read call whose SSL_read attempt reports want-read returns
\* WAIT_FOR_EVENT, appends nothing to raw_in, and stashes a read buffer of
\* blocksize bytes: the very buffer that was stashed at entry, contents
\* included, if there was one.
C3_PausedReadKeepsBuffer ==
  (pc = "idle" /\ Len(r_results) = 1 /\ r_err = "WANT_READ") =>
    /\ r_ret = WAIT_FOR_EVENT
    /\ (~r_entry.consumed => raw_in = r_entry.in)
    /\ reuse_read_buffer # NoBuf
    /\ Len(reuse_read_buffer.data) = blocksize
    /\ (r_entry.buf # NoBuf => reuse_read_buffer = r_entry.buf)

\* a pause that follows a pause, with data waiting in raw_in
C3_Witness ==
  /\ pc = "idle" /\ Len(r_results) = 1 /\ r_err = "WANT_READ"
  /\ r_entry.buf # NoBuf
  /\ r_entry.in # <<>> /\ raw_in = r_entry.in

IsFullThenShort(rs) ==
  /\ Len(rs) >= 1
  /\ \A i \in 1..(Len(rs) - 1) : rs[i] = blocksize
  /\ rs[Len(rs)] > 0 /\ rs[Len(rs)] < blocksize

\* C4: a read call whose SSL_read attempts gave full blocks and then one
\* short result returns SUCCESS; it appended one non-empty chunk of at most
\* blocksize bytes per attempt, behind what raw_in held, and the chunks
\* together are the bytes SSL_read produced, in order.
C4_ReadAppendsWhatTlsProduced ==
  (pc = "idle" /\ ~r_entry.consumed /\ IsFullThenShort(r_results)) =>
    /\ r_ret = SUCCESS
    /\ SubSeq(raw_in, 1, Len(r_entry.in)) = r_entry.in
    /\ Len(Appended) = Len(r_results)
    /\ \A i \in 1..Len(Appended) :
         Len(Appended[i].data) > 0 /\ Len(Appended[i].data) <= blocksize
    /\ FlattenIn(Appended) = r_produced

\* 40k read with no limit: 16k, 16k, 8k
C4_Witness ==
  /\ pc = "idle" /\ ~r_entry.consumed
  /\ r_results = <<blocksize, blocksize, 8 * Kilo>>
  /\ ~r_entry.limit.present
  /\ Len(r_produced) = 40 * Kilo

\* max_read rounded up to whole blocks, one block at least
RoundUpToBlocks(m) ==
  IF m <= 0 THEN blocksize ELSE ((m + blocksize - 1) \div blocksize) * blocksize

\* min(256k, limit - current), not below 0; 256k without a limit
QuotaOf(lim) ==
  IF lim.present /\ lim.limit > 0
  THEN IF lim.limit - lim.current <= 0 THEN 0
       ELSE Min(16 * blocksize, lim.limit - lim.current)
  ELSE 16 * blocksize

\* C5 as claimed: a read call never appends more than max_read bytes.
C5_Original == ~r_entry.consumed => AppendedBytes <= max_read

\* C5 as amended: a read call never appends more than max_read rounded up to
\* whole blocks (one block when max_read is 0), max_read being
\* min(256k, limit - current) and at least 0.
C5_AppendedWithinRoundedQuota ==
  /\ (pc = "read" \/ r_ret # NoStatus) => max_read = QuotaOf(r_entry.limit)
  /\ ~r_entry.consumed => AppendedBytes <= RoundUpToBlocks(max_read)

\* quota 24k, 32k appended
C5_Witness ==
  /\ pc = "idle" /\ r_ret = SUCCESS /\ ~r_entry.consumed
  /\ max_read = 24 * Kilo
  /\ AppendedBytes = 2 * blocksize

Full(lim) == lim.present /\ lim.limit > 0 /\ lim.current >= lim.limit

\* C6: a read call entered with nothing left of the limit writes the
\* "fd should be disabled" diagnostic first and makes exactly one SSL_read
\* attempt before it returns.
C6_QuotaFloor ==
  Full(r_entry.limit) =>
    /\ log # <<>> /\ Head(log) = FullDiag
    /\ IF pc = "read" THEN r_results = <<>> ELSE Len(r_results) = 1

\* current = limit at entry, one full block read
C6_Witness ==
  /\ pc = "idle" /\ r_ret = SUCCESS
  /\ r_entry.limit.present /\ r_entry.limit.limit > 0
  /\ r_entry.limit.current = r_entry.limit.limit
  /\ r_results = <<blocksize>>

(* ---------------------------------------------------------------------- *)
(* Properties of openssl_con_close                                         *)
(* ---------------------------------------------------------------------- *)
\* C7: the first openssl_con_close after a successful openssl_con_new calls
\* SSL_shutdown and SSL_free once on the live handle and clears conctx->ssl;
\* every later call changes nothing.
C7_CloseOnce ==
  [][IF close_calls = 0
     THEN close_calls' = 1 =>
            /\ ssl_obj.state = "live"
            /\ ssl_obj' = [state |-> "freed", shutdowns |-> 1, frees |-> 1]
            /\ ssl' = "NULL"
     ELSE UNCHANGED <<srv_sock_data, is_ssl, ssl, reuse_read_buffer, ssl_obj, ctx_obj,
                      new_ret, pc, err_queue, log, outVars, inVars>>]_vars

\* closed twice
C7_Witness == close_calls = 2 /\ ssl_obj.frees = 1 /\ ssl_obj.shutdowns = 1

\* C8 as claimed: after openssl_con_close the context holds neither a TLS
\* handle nor a stashed read buffer.
C8_CloseReleasesBuffer ==
  close_calls > 0 => (ssl = "NULL" /\ reuse_read_buffer = NoBuf)

(* ---------------------------------------------------------------------- *)
(* Properties of the handling of TLS failures                              *)
(* ---------------------------------------------------------------------- *)
\* C9 as claimed: openssl_con_read and openssl_con_write give the same
\* network status for the same failed TLS attempt.
C9_SameClassification == cls.phase = "done" => cls.w = cls.rd

ForwardsAll(fn, errq, lg) ==
  /\ Len(lg) >= Len(errq)
  /\ \A i \in 1..Len(errq) : lg[i] = Diag(fn, errq[i])

ResetErrnos == {"EPIPE", "ECONNRESET"}

C12_FatalForwardsEveryEntry ==
  (/\ cls.phase = "done" /\ cls.err = "SSL" /\ cls.r < 0
   /\ \E i \in 1..Len(cls.errq) : cls.errq[i] \notin NoiseReasons) =>
    /\ cls.w = FATAL_ERROR /\ cls.rd = FATAL_ERROR
    /\ ForwardsAll("SSL_write", cls.errq, cls.w_log)
    /\ ForwardsAll("SSL_read", cls.errq, cls.rd_log)

(* ---------------------------------------------------------------------- *)
(* Further properties of openssl_con_read                                  *)
(* ---------------------------------------------------------------------- *)
\* C13 as claimed: a read call whose SSL_read attempt reports zero-return
\* returns CONNECTION_CLOSE and leaves raw_in as it was when the call was
\* entered.
C13_Original ==
  (pc = "idle" /\ r_err = "ZERO_RETURN" /\ ~r_entry.consumed) =>
    /\ r_ret = CONNECTION_CLOSE
    /\ raw_in = r_entry.in

\* C13 as amended: a read call whose SSL_read attempt reports zero-return
\* returns CONNECTION_CLOSE, and that attempt appends nothing: raw_in holds
\* what it held at entry, followed by one chunk for each full block the
\* earlier attempts of the call read; it is unchanged when the zero-return
\* is the first attempt of the call.
C13_ZeroReturnCloses ==
  (pc = "idle" /\ r_err = "ZERO_RETURN" /\ ~r_entry.consumed) =>
    /\ r_ret = CONNECTION_CLOSE
    /\ SubSeq(raw_in, 1, Len(r_entry.in)) = r_entry.in
    /\ Len(Appended) = Len(r_results) - 1
    /\ \A i \in 1..Len(Appended) : Len(Appended[i].data) = blocksize
    /\ FlattenIn(Appended) = r_produced
    /\ (Len(r_results) = 1 => raw_in = r_entry.in)

\* the peer closes while a paused read is resumed, with data waiting in raw_in
C13_Witness ==
  /\ pc = "idle" /\ r_err = "ZERO_RETURN" /\ r_results = <<0>>
  /\ r_entry.buf # NoBuf
  /\ r_entry.in # <<>> /\ raw_in = r_entry.in
  /\ r_ret = CONNECTION_CLOSE

(* ---------------------------------------------------------------------- *)
(* Further properties of openssl_con_write                                 *)
(* ---------------------------------------------------------------------- *)
\* raw_out is one chunk of 20k, off bytes of it consumed
BigAt(cq, off) == Len(cq) = 1 /\ Len(cq[1].data) = 20 * Kilo /\ cq[1].offset = off

\* the first attempt of a call with a large write_max takes the first block
\* of the 20k chunk: the block is consumed and the loop goes on
C14_FirstBlock ==
  (/\ pc = "write" /\ w_results = <<>> /\ BigAt(raw_out, 0) /\ write_max > 20 * Kilo
   /\ w_results' = <<blocksize>>) =>
    /\ BigAt(raw_out', blocksize)
    /\ raw_out'[1].data = raw_out[1].data
    /\ accepted' = accepted \o SubSeq(raw_out[1].data, 1, blocksize)
    /\ pc' = "write"

\* the second attempt of that call reports want-write
C14_FirstCallPauses ==
  (/\ pc = "idle" /\ w_results = <<blocksize, -1>> /\ w_err = "WANT_WRITE"
   /\ BigAt(w_att.before, blocksize)) =>
    /\ w_ret = WAIT_FOR_EVENT
    /\ raw_out = w_att.before
    /\ w_att.view.len = 4 * Kilo /\ w_paused = w_att.view

\* the next call repeats the paused attempt, and SSL_write takes what is left
C14_SecondCallCompletes ==
  (/\ pc = "idle" /\ w_att.retry_of # NoView /\ BigAt(w_att.before, blocksize)
   /\ w_results = <<4 * Kilo>>) =>
    /\ raw_out = <<>>
    /\ accepted = enq_hist
    /\ w_ret = SUCCESS

\* C14: with one 20k chunk in raw_out and a large write_max, SSL_write taking
\* the first 16k block and then reporting want-write, the call consumes
\* exactly that block and returns WAIT_FOR_EVENT; the next call, raw_out
\* untouched and SSL_write taking the remaining 4k, leaves raw_out empty and
\* returns SUCCESS.
C14_PauseAndResume ==
  /\ [](C14_FirstCallPauses /\ C14_SecondCallCompletes)
  /\ [][C14_FirstBlock]_vars

\* the second call of the scenario has returned
C14_Witness ==
  /\ pc = "idle" /\ w_att.retry_of # NoView /\ BigAt(w_att.before, blocksize)
  /\ w_att.retry_of.len = 4 * Kilo
  /\ w_results = <<4 * Kilo>>
  /\ raw_out = <<>> /\ w_ret = SUCCESS
  /\ Len(enq_hist) = 20 * Kilo

\* C15 as claimed: a write call makes an SSL_write attempt only while raw_out
\* is non-empty and write_max > 0; with raw_out empty or write_max <= 0 it
\* returns SUCCESS without an attempt and without consuming anything.
C15_AttemptOnlyWithinBudget ==
  [][(pc = "write" /\ (cq_length(raw_out) = 0 \/ write_max <= 0)) =>
       /\ pc' = "idle" /\ w_ret' = SUCCESS
       /\ w_attempts' = w_attempts
       /\ raw_out' = raw_out]_vars

(* ---------------------------------------------------------------------- *)
(* Properties of openssl_con_new                                           *)
(* ---------------------------------------------------------------------- *)
\* C16: openssl_con_new either succeeds, and the connection has a context
\* with a live SSL handle and is marked is_ssl, or fails, and the SSL object
\* it may have got and the context are freed and the connection has no
\* context and is not marked is_ssl; in every state a context is attached
\* exactly when is_ssl is set.
C16_NewAllOrNothing ==
  /\ (srv_sock_data = "conctx") <=> is_ssl
  /\ new_ret = "TRUE" =>
       /\ srv_sock_data = "conctx" /\ is_ssl /\ ctx_obj = "live"
       /\ close_calls = 0 => (ssl = "handle" /\ ssl_obj.state = "live")
  /\ new_ret = "FALSE" =>
       /\ srv_sock_data = "NULL" /\ ~is_ssl /\ ssl = "NULL"
       /\ ctx_obj = "freed"
       /\ ssl_obj.state \in {"none", "freed"}
       /\ ssl_obj.state = "freed" => (ssl_obj.frees = 1 /\ ssl_obj.shutdowns = 0)

\* SSL_set_fd failed: the SSL object was freed again
C16_Witness ==
  /\ new_ret = "FALSE" /\ ssl_obj.state = "freed" /\ ctx_obj = "freed"
  /\ srv_sock_data = "NULL" /\ ~is_ssl

(* ---------------------------------------------------------------------- *)
(* Ownership of the read buffers                                           *)
(* ---------------------------------------------------------------------- *)
Count(p) == IF p THEN 1 ELSE 0

\* the buffer an SSL_read attempt works on ends in exactly one place: it
\* becomes the last chunk of raw_in, it is stashed, or it is freed
C20_OneFatePerAttempt ==
  pc = "read" =>
    LET hand == IF buf # NoBuf THEN buf.id ELSE next_id
        app == Len(raw_in') - Len(raw_in)
        st == Count(reuse_read_buffer' # NoBuf)
        fr == r_frees' - r_frees
    IN /\ app \in {0, 1} /\ fr \in {0, 1}
       /\ app + st + fr = 1
       /\ app = 1 => raw_in'[Len(raw_in')].id = hand
       /\ st = 1 => reuse_read_buffer'.id = hand
       /\ buf' = NoBuf

\* the buffers a read call took over or allocated are those it appended,
\* stashed, freed or still works on
C20_Ledger ==
  ~r_entry.consumed =>
    Count(r_entry.buf # NoBuf) + r_allocs
      = Len(Appended) + Count(reuse_read_buffer # NoBuf) + Count(buf # NoBuf) + r_frees

\* C20: every read buffer a read call allocates or takes from
\* reuse_read_buffer ends the call in exactly one place: appended to raw_in,
\* stashed in reuse_read_buffer, or freed; none is freed twice, freed after
\* being appended or stashed, both in raw_in and stashed, or dropped.
C20_BufferOwnership ==
  /\ [](C20_Ledger /\ r_frees <= 1 /\ r_frees + Count(reuse_read_buffer # NoBuf) <= 1)
  /\ [][C20_OneFatePerAttempt]_vars

\* the stashed buffer was filled and appended, a new one allocated and freed
C20_Witness ==
  /\ pc = "idle" /\ ~r_entry.consumed
  /\ r_entry.buf # NoBuf
  /\ r_allocs = 1 /\ r_frees = 1
  /\ Len(Appended) = 1 /\ Appended[1].id = r_entry.buf.id
  /\ reuse_read_buffer = NoBuf

(* ---------------------------------------------------------------------- *)
(* The stashed read buffer                                                 *)
(* ---------------------------------------------------------------------- *)
\* a buffer is stashed exactly from a read call's WAIT_FOR_EVENT to the next
\* read call, and it has blocksize bytes
C17_StashedIffPaused ==
  /\ (reuse_read_buffer # NoBuf) <=> (r_ret = WAIT_FOR_EVENT)
  /\ reuse_read_buffer # NoBuf => Len(reuse_read_buffer.data) = blocksize

\* no step into, within or out of a write call touches the stashed buffer
C17_WriteKeepsStash ==
  (pc = "write" \/ pc' = "write") => reuse_read_buffer' = reuse_read_buffer

\* C17: after every read call reuse_read_buffer holds a buffer if and only if
\* the call returned WAIT_FOR_EVENT (after SUCCESS, CONNECTION_CLOSE and
\* FATAL_ERROR it is NULL); the one stashed buffer has the full blocksize,
\* and write calls never change it.
C17_PendingReadBuffer ==
  /\ []C17_StashedIffPaused
  /\ [][C17_WriteKeepsStash]_vars

\* a write call is running, one block written, while a read buffer is stashed
C17_Witness ==
  /\ pc = "write" /\ w_results = <<3>>
  /\ reuse_read_buffer # NoBuf /\ r_ret = WAIT_FOR_EVENT

(* ---------------------------------------------------------------------- *)
(* Termination of the loops                                                *)
(* ---------------------------------------------------------------------- *)
\* a read call makes at most 16 SSL_read attempts: its loop goes on only
\* after full blocks, with fewer bytes read than max_read, at most 256k
C18_ReadBounded ==
  /\ Len(r_results) <= 16
  /\ max_read <= 16 * blocksize
  /\ (pc = "read" /\ r_results # <<>>) =>
       /\ \A i \in 1..Len(r_results) : r_results[i] = blocksize
       /\ len = blocksize * Len(r_results)
       /\ len < max_read

\* the loop of a write call goes on only after SSL_write took the whole
\* block with write_max still positive, and then raw_out and write_max are
\* both smaller than before
C18_WriteShrinks ==
  (pc = "write" /\ pc' = "write") =>
    /\ w_attempts' = w_attempts + 1
    /\ w_att'.r > 0 /\ w_att'.r = w_att'.view.len
    /\ write_max' > 0 /\ write_max' < write_max
    /\ cq_length(raw_out') < cq_length(raw_out)

\* C18: every call ends after a bounded number of TLS attempts: a read call
\* makes at most 16 SSL_read attempts (it goes on only after a full block
\* while fewer than max_read <= 256k bytes were read), and a write call goes
\* on only after a full-block write with write_max still positive, each such
\* iteration shrinking both raw_out and write_max.
C18_BoundedAttempts ==
  /\ []C18_ReadBounded
  /\ [][C18_WriteShrinks]_vars

\* 16 full blocks read in one call
C18_Witness ==
  /\ pc = "idle" /\ r_ret = SUCCESS
  /\ Len(r_results) = 16 /\ len = 16 * blocksize
  /\ max_read = 16 * blocksize

(* ---------------------------------------------------------------------- *)
(* Progress of openssl_con_write                                           *)
(* ---------------------------------------------------------------------- *)
\* C19: when write_cb is called again with write_max > 0 after every
\* WAIT_FOR_EVENT and SUCCESS, and SSL_write neither pauses forever nor
\* reports a terminal failure, whatever is in raw_out is eventually written:
\* raw_out becomes empty and a write call returns SUCCESS on the empty queue.
C19_WriteProgress ==
  (raw_out # <<>>) ~> (raw_out = <<>> /\ pc = "idle" /\ w_ret = SUCCESS)

\* everything enqueued was written, the last block by the retry of a paused
\* attempt
C19_Witness ==
  /\ raw_out = <<>> /\ pc = "idle" /\ w_ret = SUCCESS
  /\ accepted = enq_hist /\ Len(enq_hist) >= 20 * Kilo
  /\ w_att.retry_of # NoView

====
